---- MODULE Spec2Model ----
(***************************************************************************)
(* Model of the Texas Hold'em table of src/app.py: the global table state  *)
(* `game`, the connection map `sid_to_seat`, and one action per Socket.IO *)
(* event handler.  Each action is the whole handler, including the turn    *)
(* advancement (ask_for_action) it runs before returning.                  *)
(***************************************************************************)
EXTENDS Integers, Sequences, FiniteSets, TLC

VARIABLES
    game,        \* the GameState singleton (src/app.py:50-71)
    sid_to_seat, \* connection id -> seat (src/app.py:72)
    last,        \* observation of the most recent event and what it applied
    steps,       \* number of events handled so far
    th           \* handler threads of the threaded server (SpecThreads only)

vars == <<game, sid_to_seat, last, steps, th>>

----------------------------------------------------------------------------
(* Bounds of the exploration *)

MaxSteps  == 4   \* events handled along one behaviour
NumSids   == 2   \* distinct client connections

(* Inputs the clients may send *)
Sids      == 1..NumSids
Joins     == {<<1, "Ann">>, <<2, "Bob">>}   \* <<sid, name>> of a join_table
Amounts   == {-50, 0, 2000}
Actions   == {"FOLD", "CHECK", "CALL", "RAISE", "DANCE"}
ShuffleKeys == {5}

----------------------------------------------------------------------------
(* Program constants *)

HERO_SEAT  == 0
StartChips == 1000
FirstSeat  == 1
LastSeat   == 6
NoSeat     == -1      \* None, for a seat
NoSid      == 0       \* None, for a socket id
NoStreet   == "none"  \* None, for the street

RANKS_ORDER == <<"2", "3", "4", "5", "6", "7", "8", "9", "T", "J", "Q", "K", "A">>
SUITS_ORDER == <<"s", "h", "d", "c">>

RANK_VALUE == [r \in {RANKS_ORDER[i] : i \in 1..13} |->
                 1 + CHOOSE i \in 1..13 : RANKS_ORDER[i] = r]

(* A card string such as "As" is encoded as 4 * (index of its rank in      *)
(* RANKS_ORDER) + (index of its suit in "shdc"), a number in 0..51; c[0] is *)
(* RankOf(c) and c[1] is SuitOf(c).                                         *)
Card(r, s) == 4 * ((CHOOSE i \in 1..13 : RANKS_ORDER[i] = r) - 1)
              + ((CHOOSE j \in 1..4 : SUITS_ORDER[j] = s) - 1)

RankOf(c) == RANKS_ORDER[(c \div 4) + 1]

SuitOf(c) == SUITS_ORDER[(c % 4) + 1]

----------------------------------------------------------------------------
(* Generic helpers *)

Min(S) == CHOOSE m \in S : \A o \in S : m <= o

Range(f) == {f[i] : i \in DOMAIN f}

Max2(a, b) == IF a > b THEN a ELSE b

Min2(a, b) == IF a < b THEN a ELSE b

LowerCase ==
    [n \in {"Ann", "ANN", "Bob", "Cat", "Dan", "Eve", "Fay", "Gus", "Hal", "Hero AI"} |->
        CASE n \in {"Ann", "ANN"} -> "ann"
          [] n = "Bob" -> "bob"
          [] n = "Cat" -> "cat"
          [] n = "Dan" -> "dan"
          [] n = "Eve" -> "eve"
          [] n = "Fay" -> "fay"
          [] n = "Gus" -> "gus"
          [] n = "Hal" -> "hal"
          [] OTHER -> "hero ai"]

Lower(name) == IF name \in DOMAIN LowerCase THEN LowerCase[name] ELSE name

(* a function on 1..n as a sequence *)
ToSeq(f) == SubSeq(f, 1, Len(f))

(* the Python slice s[lo:hi], for 0 <= lo *)
Slice(s, lo, hi) == SubSeq(s, lo + 1, IF hi < Len(s) THEN hi ELSE Len(s))

(* list.pop() n times: the n last elements, last first *)
Popped(deck, n) == ToSeq([i \in 1..n |-> deck[Len(deck) + 1 - i]])

AfterPop(deck, n) == SubSeq(deck, 1, Len(deck) - n)

----------------------------------------------------------------------------
(* Models *)

AllSeats == HERO_SEAT..LastSeat

(* a PlayerStats object; the dict game.stats is a function on all seats *)
(* whose entries say whether the seat is a key of the dict              *)
PlayerStats == [tracked |-> TRUE, hands_played |-> 0, vpip_hands |-> 0, pfr_hands |-> 0]

NoStats == [tracked |-> FALSE, hands_played |-> 0, vpip_hands |-> 0, pfr_hands |-> 0]

PlayerState(seat, name, is_hero, sid) ==
    [seat |-> seat, name |-> name, is_hero |-> is_hero, sid |-> sid,
     chips |-> StartChips, hole_cards |-> <<>>, folded |-> FALSE]

GameState ==
    [players |-> <<>>, deck |-> <<>>, full_board |-> <<>>, board |-> <<>>,
     pot |-> 0, street |-> NoStreet, current_bet |-> 0,
     current_player_seat |-> NoSeat, to_act |-> {}, hand_running |-> FALSE,
     hand_history |-> <<>>, stats |-> [s \in AllSeats |-> NoStats], hero_mode |-> "auto"]

----------------------------------------------------------------------------
(* Helpers *)

(* make_deck before the shuffle: r + s for r in ranks for s in suits *)
OrderedDeck == ToSeq([i \in 1..52 |->
                  Card(RANKS_ORDER[((i - 1) \div 4) + 1], SUITS_ORDER[((i - 1) % 4) + 1])])

(* random.shuffle picks a permutation; the model picks among a few, each *)
(* given by a multiplier coprime to 52                                   *)
make_deck(key) == ToSeq([i \in 1..52 |-> OrderedDeck[((i * key) % 52) + 1]])

HasPlayer(g, seat) == \E i \in 1..Len(g.players) : g.players[i].seat = seat

PlayerIndex(g, seat) == Min({i \in 1..Len(g.players) : g.players[i].seat = seat})

find_player_by_seat(g, seat) == g.players[PlayerIndex(g, seat)]

(* the list of non-folded seats, in the order of the player list *)
active_seats(g) ==
    LET act == SelectSeq(g.players, LAMBDA p : ~p.folded)
    IN  ToSeq([i \in 1..Len(act) |-> act[i].seat])

FirstActive(g) == IF Len(active_seats(g)) > 0 THEN active_seats(g)[1] ELSE NoSeat

record_hand(g, result) == [g EXCEPT !.hand_history = Append(@, result)]

(* the soft reset as if it started the statistics over *)
SoftResetClearsStats(g) ==
    [g EXCEPT !.stats = [s \in AllSeats |-> IF @[s].tracked THEN PlayerStats ELSE @[s]],
              !.deck = <<>>, !.full_board = <<>>, !.board = <<>>,
              !.pot = 0, !.street = NoStreet, !.current_bet = 0,
              !.current_player_seat = NoSeat, !.to_act = {},
              !.hand_running = FALSE]

soft_reset(g) ==
    [g EXCEPT !.players = ToSeq([i \in 1..Len(g.players) |->
                             [g.players[i] EXCEPT !.hole_cards = <<>>, !.folded = FALSE]]),
              !.deck = <<>>, !.full_board = <<>>, !.board = <<>>,
              !.pot = 0, !.street = NoStreet, !.current_bet = 0,
              !.current_player_seat = NoSeat, !.to_act = {},
              !.hand_running = FALSE]

----------------------------------------------------------------------------
(* Hand evaluator *)

(* sorted(s, reverse=True) *)
SortDesc(s) == SortSeq(s, LAMBDA a, b : a > b)

(* tuple comparison of Python: lexicographic, a proper prefix is smaller *)
RECURSIVE SeqGreater(_, _)
SeqGreater(a, b) ==
    IF Len(a) = 0 THEN FALSE
    ELSE IF Len(b) = 0 THEN TRUE
    ELSE IF a[1] # b[1] THEN a[1] > b[1]
    ELSE SeqGreater(Tail(a), Tail(b))

RankGreater(x, y) == IF x[1] # y[1] THEN x[1] > y[1] ELSE SeqGreater(x[2], y[2])

AllRankValues == <<2, 3, 4, 5, 6, 7, 8, 9, 10, 11, 12, 13, 14>>

(* ranks = [RANK_VALUE[c[0]] for c in cards5] *)
RanksOf(cards5) == ToSeq([i \in 1..Len(cards5) |-> RANK_VALUE[RankOf(cards5[i])]])

(* is_flush = len(set(suits)) == 1 *)
IsFlush(cards5) == Cardinality({SuitOf(cards5[i]) : i \in 1..Len(cards5)}) = 1

(* counts[r], with 0 for the ranks that are not keys of the dict *)
Counts(ranks) ==
    ToSeq([r \in 1..14 |-> Cardinality({i \in 1..Len(ranks) : ranks[i] = r})])

(* uniq = sorted(set(ranks)) *)
Uniq(ranks) == SelectSeq(AllRankValues, LAMBDA r : r \in Range(ranks))

(* the ranks of counts.items() sorted by (count, rank), descending *)
ByCount(uniq, counts) ==
    SortSeq(uniq, LAMBDA a, b : counts[a] > counts[b] \/ (counts[a] = counts[b] /\ a > b))

(* the straight detection as if the ace were only ever high *)
HighStraightNoWheel(uniq) ==
    IF Len(uniq) < 5 THEN 0
    ELSE IF \E i \in 1..(Len(uniq) - 4) : uniq[i + 4] - uniq[i] = 4
    THEN uniq[4 + CHOOSE i \in 1..(Len(uniq) - 4) : uniq[i + 4] - uniq[i] = 4]
    ELSE 0

(* the straight detection as if the ace of a wheel stayed the high card *)
HighStraightAceHigh(uniq) ==
    IF Len(uniq) < 5 THEN 0
    ELSE IF {14, 2, 3, 4, 5} \subseteq Range(uniq) THEN 14
    ELSE IF \E i \in 1..(Len(uniq) - 4) : uniq[i + 4] - uniq[i] = 4
    THEN uniq[4 + CHOOSE i \in 1..(Len(uniq) - 4) : uniq[i + 4] - uniq[i] = 4]
    ELSE 0

(* the straight detection: 0 when there is no straight, else high_straight *)
HighStraight(uniq) ==
    IF Len(uniq) < 5 THEN 0
    ELSE IF {14, 2, 3, 4, 5} \subseteq Range(uniq) THEN 5
    ELSE IF \E i \in 1..(Len(uniq) - 4) : uniq[i + 4] - uniq[i] = 4
    THEN uniq[4 + CHOOSE i \in 1..(Len(uniq) - 4) :
                    /\ uniq[i + 4] - uniq[i] = 4
                    /\ \A j \in (i + 1)..(Len(uniq) - 4) : uniq[j + 4] - uniq[j] # 4]
    ELSE 0

(* sorted([r for r in ranks if r not in excl], reverse=True) *)
Kickers(ranks, excl) == SortDesc(SelectSeq(ranks, LAMBDA r : r \notin excl))

(* the chain of category tests of evaluate_5 *)
Classify(ranks, counts, by_count, is_flush, high_straight) ==
    IF is_flush /\ high_straight > 0 THEN <<8, <<high_straight>>>>
    ELSE IF counts[by_count[1]] = 4
    THEN <<7, <<by_count[1], Kickers(ranks, {by_count[1]})[1]>>>>
    ELSE IF counts[by_count[1]] = 3 /\ Len(by_count) > 1 /\ counts[by_count[2]] >= 2
    THEN <<6, <<by_count[1], by_count[2]>>>>
    ELSE IF is_flush THEN <<5, SortDesc(ranks)>>
    ELSE IF high_straight > 0 THEN <<4, <<high_straight>>>>
    ELSE IF counts[by_count[1]] = 3
    THEN <<3, <<by_count[1]>> \o SubSeq(Kickers(ranks, {by_count[1]}), 1, 2)>>
    ELSE IF counts[by_count[1]] = 2 /\ Len(by_count) > 1 /\ counts[by_count[2]] = 2
    THEN <<2, <<Max2(by_count[1], by_count[2]), Min2(by_count[1], by_count[2]),
               Kickers(ranks, {by_count[1], by_count[2]})[1]>>>>
    ELSE IF counts[by_count[1]] = 2
    THEN <<1, <<by_count[1]>> \o SubSeq(Kickers(ranks, {by_count[1]}), 1, 3)>>
    ELSE <<0, SortDesc(ranks)>>

Evaluate5Ranks(ranks, uniq, counts, is_flush) ==
    Classify(ranks, counts, ByCount(uniq, counts), is_flush, HighStraight(uniq))

(* (category, tiebreakers) of a 5-card hand *)
evaluate_5(cards5) ==
    Evaluate5Ranks(RanksOf(cards5), Uniq(RanksOf(cards5)), Counts(RanksOf(cards5)),
                   IsFlush(cards5))

(* itertools.combinations: the k-subsets of lo..n as index tuples, in *)
(* lexicographic order                                                 *)
RECURSIVE Combinations(_, _, _)
Combinations(lo, n, k) ==
    IF k = 0 THEN << <<>> >>
    ELSE IF lo > n THEN <<>>
    ELSE ToSeq([i \in 1..Len(Combinations(lo + 1, n, k - 1)) |->
                  <<lo>> \o Combinations(lo + 1, n, k - 1)[i]])
         \o Combinations(lo + 1, n, k)

Combos7 == Combinations(1, 7, 5)

RECURSIVE BestLoop(_, _, _, _)
(* the loop as if the first combination were never replaced *)
BestStepKeepsFirst(cards7, i, best_rank, best_combo, combo, rank) ==
    IF best_combo = <<>>
    THEN BestLoop(cards7, i + 1, rank, combo)
    ELSE BestLoop(cards7, i + 1, best_rank, best_combo)

(* one iteration of the loop of best_5_from_7, for the combination `combo` *)
(* of rank `rank`                                                          *)
BestStep(cards7, i, best_rank, best_combo, combo, rank) ==
    IF best_combo = <<>> \/ RankGreater(rank, best_rank)
    THEN BestLoop(cards7, i + 1, rank, combo)
    ELSE BestLoop(cards7, i + 1, best_rank, best_combo)

BestPick(cards7, i, best_rank, best_combo, combo) ==
    BestStep(cards7, i, best_rank, best_combo, combo, evaluate_5(combo))

BestLoop(cards7, i, best_rank, best_combo) ==
    IF i > Len(Combos7) THEN <<best_rank, best_combo>>
    ELSE BestPick(cards7, i, best_rank, best_combo,
                  ToSeq([j \in 1..5 |-> cards7[Combos7[i][j]]]))

(* (rank, best five cards) of the best 5 out of 7 *)
best_5_from_7(cards7) == BestLoop(cards7, 1, <<0, <<>>>>, <<>>)

----------------------------------------------------------------------------
(* Showdown and hand end *)

PlayerInfo(p, winner, best_five) ==
    [seat |-> p.seat, name |-> p.name, hole_cards |-> p.hole_cards,
     folded |-> p.folded, winner |-> winner, best_five |-> best_five]

WinnerNames(infos) ==
    ToSeq([k \in 1..Len(SelectSeq(infos, LAMBDA i : i.winner)) |->
             <<SelectSeq(infos, LAMBDA i : i.winner)[k].seat,
               SelectSeq(infos, LAMBDA i : i.winner)[k].name>>])

Result(g, infos, text) ==
    [board |-> g.board, players |-> infos, note |-> <<text, WinnerNames(infos)>>]

(* the players evaluated at showdown, by index in the player list *)
Evaluated(g) ==
    {i \in 1..Len(g.players) : ~g.players[i].folded /\ Len(g.players[i].hole_cards) >= 2}

(* best_5_from_7 of every evaluated player *)
Evals(g) ==
    ToSeq([i \in 1..Len(g.players) |->
             IF i \in Evaluated(g)
             THEN best_5_from_7(g.players[i].hole_cards \o g.board)
             ELSE <<>>])

(* the players whose rank no evaluated player beats: rank == best_rank *)
(* winners as if every seat that reaches the showdown won *)
WinnersAllEvaluated(g, eval) == Evaluated(g)

Winners(g, eval) ==
    {i \in Evaluated(g) : \A j \in Evaluated(g) : ~RankGreater(eval[j][1], eval[i][1])}

ShowdownInfos(g, eval, winners) ==
    ToSeq([i \in 1..Len(g.players) |->
             PlayerInfo(g.players[i], i \in winners,
                        IF i \in Evaluated(g) THEN eval[i][2] ELSE <<>>)])

ShowdownResult(g, eval) ==
    Result(g, ShowdownInfos(g, eval, Winners(g, eval)),
           IF Winners(g, eval) # {} THEN "Winners: " ELSE "No active players to evaluate.")

build_showdown_result(g) ==
    IF Len(g.board) < 5
    THEN Result(g, ToSeq([i \in 1..Len(g.players) |-> PlayerInfo(g.players[i], FALSE, <<>>)]),
                "Showdown with incomplete board - winner not evaluated.")
    ELSE ShowdownResult(g, Evals(g))

(* the turn order as if it ran downwards: the next lower active seat, or    *)
(* the highest one                                                         *)
SeatOrderDescending(g, seat) ==
    LET seats == Range(active_seats(g))
        smaller == {s \in seats : s < seat}
    IN  IF seats = {} THEN NoSeat
        ELSE IF smaller # {} /\ seat # NoSeat
        THEN CHOOSE m \in smaller : \A o \in smaller : o <= m
        ELSE CHOOSE m \in seats : \A o \in seats : o <= m

seat_order_after(g, seat) ==
    LET seats == Range(active_seats(g))     \* sorted(active_seats())
        bigger == {s \in seats : s > seat}
    IN  IF seats = {} THEN NoSeat
        ELSE IF seat = NoSeat THEN Min(seats)
        ELSE IF bigger # {} THEN Min(bigger) ELSE Min(seats)

(* the override as if the given cards replaced the whole precomputed board *)
ManualSetBoardDropsTail(g, cards) ==
    IF ~g.hand_running \/ Len(cards) < 3 \/ Len(cards) > 5 THEN g
    ELSE [g EXCEPT !.board = cards, !.full_board = cards,
                   !.street = IF Len(cards) = 3 THEN "flop"
                              ELSE IF Len(cards) = 4 THEN "turn" ELSE "river"]

(* the override as if the number of cards were not looked at *)
ManualSetBoardAnyCount(g, cards) ==
    IF ~g.hand_running THEN g
    ELSE [g EXCEPT !.board = cards,
                   !.full_board = cards \o Slice(@, Len(cards), 5),
                   !.street = IF Len(cards) <= 3 THEN "flop"
                              ELSE IF Len(cards) = 4 THEN "turn" ELSE "river"]

manual_set_board(g, cards) ==
    LET n == Len(cards)
        full == ToSeq([i \in 1..Len(g.full_board) |->
                    IF i <= n THEN cards[i] ELSE g.full_board[i]])
        more == IF Len(full) < 5 THEN full \o Slice(cards, Len(full), 5) ELSE full
    IN  IF ~g.hand_running THEN g
        ELSE IF n < 3 \/ n > 5 THEN g
        ELSE [g EXCEPT !.board = cards,
                       !.street = IF n = 3 THEN "flop" ELSE IF n = 4 THEN "turn" ELSE "river",
                       !.full_board = IF Len(g.full_board) = 0 THEN cards
                                      ELSE Slice(more, 0, 5)]

(* check_hand_end_if_one_left testing for no seat left instead of one *)
NoneLeft(g) == Len(active_seats(g)) < 1 /\ g.hand_running

(* the test of check_hand_end_if_one_left *)
OneLeft(g) == Len(active_seats(g)) <= 1 /\ g.hand_running

(* the body of check_hand_end_if_one_left when the test holds *)
EndByFoldOut(g) ==
    [record_hand(g, Result(g,
                           ToSeq([i \in 1..Len(g.players) |->
                                    PlayerInfo(g.players[i], ~g.players[i].folded, <<>>)]),
                           "Hand ended because all but one player folded."))
        EXCEPT !.hand_running = FALSE]

check_hand_end_if_one_left(g) == IF OneLeft(g) THEN EndByFoldOut(g) ELSE g

----------------------------------------------------------------------------
(* Observation of the calls of apply_action made by one event handler *)

Snap(g) ==
    [players |-> g.players, pot |-> g.pot, current_bet |-> g.current_bet,
     to_act |-> g.to_act, street |-> g.street,
     current_player_seat |-> g.current_player_seat,
     hand_running |-> g.hand_running, nhist |-> Len(g.hand_history),
     stats |-> g.stats, board |-> g.board, full_board |-> g.full_board]

(* the table state a handler works on, with the log of what it applied *)
Begin(g) ==
    [players |-> g.players, deck |-> g.deck, full_board |-> g.full_board,
     board |-> g.board, pot |-> g.pot, street |-> g.street,
     current_bet |-> g.current_bet, current_player_seat |-> g.current_player_seat,
     to_act |-> g.to_act, hand_running |-> g.hand_running,
     hand_history |-> g.hand_history, stats |-> g.stats, hero_mode |-> g.hero_mode,
     trace |-> <<>>]

GameOf(x) ==
    [players |-> x.players, deck |-> x.deck, full_board |-> x.full_board,
     board |-> x.board, pot |-> x.pot, street |-> x.street,
     current_bet |-> x.current_bet, current_player_seat |-> x.current_player_seat,
     to_act |-> x.to_act, hand_running |-> x.hand_running,
     hand_history |-> x.hand_history, stats |-> x.stats, hero_mode |-> x.hero_mode]

----------------------------------------------------------------------------
(* Hero AI and action logic *)

Decision(action, amount) == [action |-> action, amount |-> amount]

(* the decision for hole cards h1, h2 facing to_call with the given pot *)
HeroDecide(g, h1, h2, r1, r2, to_call, pot) ==
    IF g.street = "preflop"
    THEN IF \/ (RankOf(h1) = RankOf(h2) /\ r1 >= 10)                 \* high_pair
            \/ ("A" \in {RankOf(h1), RankOf(h2)} /\ Max2(r1, r2) >= 11)  \* big_ace
            \/ SuitOf(h1) = SuitOf(h2)                               \* suited
         THEN Decision("RAISE", Max2(20, pot + 10))
         ELSE IF to_call = 0 THEN Decision("CHECK", 0) ELSE Decision("FOLD", 0)
    ELSE IF Len(g.board) = 0 THEN Decision("CHECK", 0)
    ELSE IF \/ RankOf(h1) \in {RankOf(g.board[i]) : i \in 1..Len(g.board)}  \* pair_with_board
            \/ RankOf(h2) \in {RankOf(g.board[i]) : i \in 1..Len(g.board)}
            \/ RankOf(h1) = RankOf(h2)
            \/ "A" \in {RankOf(h1), RankOf(h2)}                      \* has_ace
         THEN IF to_call = 0
              THEN Decision("RAISE", Max2(20, IF pot \div 2 = 0 THEN 20 ELSE pot \div 2))
              ELSE Decision("CALL", 0)
         ELSE IF to_call = 0 THEN Decision("CHECK", 0) ELSE Decision("FOLD", 0)

hero_ai_decision(g, player) ==
    HeroDecide(g, player.hole_cards[1], player.hole_cards[2],
               RANK_VALUE[RankOf(player.hole_cards[1])],
               RANK_VALUE[RankOf(player.hole_cards[2])],
               g.current_bet, g.pot)

SetPlayer(g, seat, p) == [g EXCEPT !.players[PlayerIndex(g, seat)] = p]

Bump(stats, seat, field) ==
    IF stats[seat].tracked THEN [stats EXCEPT ![seat][field] = @ + 1] ELSE stats

(* the RAISE branch of apply_action, once call_amount is known *)
TotalBet(player, call_amount, amount) ==
    Min2(call_amount + amount, player.chips + call_amount)

(* the RAISE payment without lines 666-667 *)
PayUnclamped(player, total_bet) == IF total_bet > 0 THEN total_bet ELSE 0

Pay(player, total_bet) ==
    IF total_bet > 0 THEN (IF total_bet > player.chips THEN player.chips ELSE total_bet)
    ELSE 0

(* a RAISE that only takes the raiser out of to_act *)
RaisedKeepsToAct(g, seat, player, is_preflop, total_bet) ==
    [SetPlayer(g, seat, [player EXCEPT !.chips = @ - Pay(player, total_bet)])
        EXCEPT !.pot = @ + Pay(player, total_bet),
               !.current_bet = total_bet,
               !.stats = IF is_preflop /\ total_bet > 0
                         THEN Bump(Bump(@, seat, "vpip_hands"), seat, "pfr_hands")
                         ELSE @,
               !.to_act = @ \ {seat}]

(* a RAISE that adds to the pot without taking the chips from the stack *)
RaisedFromNowhere(g, seat, player, is_preflop, total_bet) ==
    [g EXCEPT !.pot = @ + Pay(player, total_bet),
              !.current_bet = total_bet,
              !.stats = IF is_preflop /\ total_bet > 0
                        THEN Bump(Bump(@, seat, "vpip_hands"), seat, "pfr_hands")
                        ELSE @,
              !.to_act = Range(active_seats(g)) \ {seat}]

Raised(g, seat, player, is_preflop, total_bet) ==
    [SetPlayer(g, seat, [player EXCEPT !.chips = @ - Pay(player, total_bet)])
        EXCEPT !.pot = @ + Pay(player, total_bet),
               !.current_bet = total_bet,
               !.stats = IF is_preflop /\ total_bet > 0
                         THEN Bump(Bump(@, seat, "vpip_hands"), seat, "pfr_hands")
                         ELSE @,
               !.to_act = Range(active_seats(g)) \ {seat}]

(* a CALL that pays current_bet whatever the stack *)
CalledFullBet(g, seat, player, is_preflop, call_amount) ==
    [SetPlayer(g, seat, [player EXCEPT !.chips = @ - g.current_bet])
        EXCEPT !.pot = @ + g.current_bet,
               !.to_act = @ \ {seat},
               !.stats = IF is_preflop /\ g.current_bet > 0
                         THEN Bump(@, seat, "vpip_hands") ELSE @]

(* the CALL branch of apply_action, once call_amount is known *)
Called(g, seat, player, is_preflop, call_amount) ==
    [SetPlayer(g, seat, [player EXCEPT !.chips = @ - call_amount])
        EXCEPT !.pot = @ + call_amount,
               !.to_act = @ \ {seat},
               !.stats = IF is_preflop /\ call_amount > 0
                         THEN Bump(@, seat, "vpip_hands") ELSE @]

ApplyTo(g, seat, player, action, amount, is_preflop, call_amount) ==
    IF action = "FOLD"
    THEN [SetPlayer(g, seat, [player EXCEPT !.folded = TRUE]) EXCEPT !.to_act = @ \ {seat}]
    ELSE IF action = "CHECK"
    THEN [g EXCEPT !.to_act = @ \ {seat}]
    ELSE IF action = "CALL"
    THEN Called(g, seat, player, is_preflop, call_amount)
    ELSE IF action = "RAISE"
    THEN Raised(g, seat, player, is_preflop, TotalBet(player, call_amount, amount))
    ELSE g

(* apply_action between its guard and its final hand-end check: the effect *)
(* of one action on the table                                              *)
ApplyCore(g, seat, action, amount) ==
    ApplyTo(g, seat, find_player_by_seat(g, seat), action, amount,
            g.street = "preflop",
            Min2(find_player_by_seat(g, seat).chips, g.current_bet))

(* the guard of apply_action without its to_act test *)
RejectedWhenStopped(g, seat) == ~g.hand_running

(* the guard of apply_action: the action is dropped *)
Rejected(g, seat) == seat \notin g.to_act \/ ~g.hand_running

Logged(g, core, seat, action, amount) ==
    [core EXCEPT !.trace = Append(@, [seat |-> seat, action |-> action, amount |-> amount,
                                      pre |-> Snap(g), mid |-> Snap(core)])]

(* the street transition as if the bet to call were carried over *)
NewStreetKeepsBet(g, street, n) ==
    [g EXCEPT !.street = street, !.board = Slice(g.full_board, 0, n),
              !.to_act = Range(active_seats(g)),
              !.current_player_seat = FirstActive(g)]

NewStreet(g, street, n) ==
    [g EXCEPT !.street = street, !.board = Slice(g.full_board, 0, n),
              !.current_bet = 0,
              !.to_act = Range(active_seats(g)),
              !.current_player_seat = FirstActive(g)]

Showdown(g) == [record_hand(g, build_showdown_result(g)) EXCEPT !.hand_running = FALSE]

(* the log entry of one run of next_street_or_showdown: the table before it *)
(* and the table it leaves, before the next seat is asked                  *)
Turned(g, after) ==
    [after EXCEPT !.trace = Append(@, [seat |-> NoSeat, action |-> "next_street",
                                       amount |-> 0, pre |-> Snap(g), mid |-> Snap(after)])]

Skipped(g, seat) ==
    [g EXCEPT !.to_act = @ \ {seat}, !.current_player_seat = seat_order_after(g, seat)]

RECURSIVE ask_for_action(_), apply_action(_, _, _, _), next_street_or_showdown(_)

next_street_or_showdown(g) ==
    IF ~g.hand_running THEN g
    ELSE IF g.street = "preflop" THEN ask_for_action(Turned(g, NewStreet(g, "flop", 3)))
    ELSE IF g.street = "flop" THEN ask_for_action(Turned(g, NewStreet(g, "turn", 4)))
    ELSE IF g.street = "turn" THEN ask_for_action(Turned(g, NewStreet(g, "river", 5)))
    ELSE Turned(g, Showdown(g))

(* ask_for_action once the current seat is in to_act and has a player *)
AskPlayer(g, seat, player) ==
    IF player.folded THEN ask_for_action(Skipped(g, seat))
    ELSE IF player.is_hero
    THEN IF g.hero_mode = "auto"
         THEN apply_action(g, seat, hero_ai_decision(g, player).action,
                           hero_ai_decision(g, player).amount)
         ELSE g                       \* manual mode: wait for hero_action
    ELSE IF player.sid # NoSid THEN g \* request_action sent; wait for player_action
    ELSE ask_for_action(Skipped(g, seat))

(* ask_for_action once current_player_seat is set *)
AskSeat(g, seat) ==
    IF seat = NoSeat THEN g
    ELSE IF seat \notin g.to_act
    THEN ask_for_action([g EXCEPT !.current_player_seat = seat_order_after(g, seat)])
    ELSE IF ~HasPlayer(g, seat) THEN ask_for_action(Skipped(g, seat))
    ELSE AskPlayer(g, seat, find_player_by_seat(g, seat))

ask_for_action(g) ==
    IF ~g.hand_running THEN g
    ELSE IF g.to_act = {} THEN next_street_or_showdown(g)
    ELSE IF g.current_player_seat = NoSeat
    THEN AskSeat([g EXCEPT !.current_player_seat = FirstActive(g)], FirstActive(g))
    ELSE AskSeat(g, g.current_player_seat)

(* apply_action after the action took effect: hand end, or the next seat *)
AfterAction(g, seat) ==
    IF OneLeft(g) THEN EndByFoldOut(g)
    ELSE ask_for_action([g EXCEPT !.current_player_seat = seat_order_after(g, seat)])

apply_action(g, seat, action, amount) ==
    IF Rejected(g, seat) THEN g
    ELSE AfterAction(Logged(g, ApplyCore(g, seat, action, amount), seat, action, amount),
                     seat)

----------------------------------------------------------------------------
(* Dealing *)

(* the loop dealing hole cards, from player i on: <<players, deck>> *)
RECURSIVE DealHoles(_, _, _, _)
DealHoles(players, deck, hero_cards, i) ==
    IF i > Len(players) THEN <<players, deck>>
    ELSE IF players[i].is_hero /\ Len(hero_cards) = 2
    THEN DealHoles([players EXCEPT ![i].hole_cards = hero_cards], deck, hero_cards, i + 1)
    ELSE DealHoles([players EXCEPT ![i].hole_cards = Popped(deck, 2)],
                   AfterPop(deck, 2), hero_cards, i + 1)

(* the players of a new hand as if stacks and folded flags were carried over *)
StalePlayers(g) == g.players

FreshPlayers(g) ==
    ToSeq([i \in 1..Len(g.players) |->
             [g.players[i] EXCEPT !.chips = StartChips, !.folded = FALSE,
                                  !.hole_cards = <<>>]])

DealtStats(g) ==
    [s \in AllSeats |->
        IF \E i \in 1..Len(g.players) : g.players[i].seat = s
        THEN [(IF g.stats[s].tracked THEN g.stats[s] ELSE PlayerStats)
                 EXCEPT !.hands_played = @ + 1]
        ELSE g.stats[s]]

(* deal_new_hand once the deck is filtered and the hole cards are dealt *)
Dealt(g, full_board, dealt) ==
    [g EXCEPT !.players = dealt[1], !.deck = dealt[2], !.pot = 0,
              !.street = "preflop", !.board = <<>>, !.full_board = full_board,
              !.current_bet = 0, !.hand_running = TRUE, !.stats = DealtStats(g),
              !.to_act = {g.players[i].seat : i \in 1..Len(g.players)},
              !.current_player_seat = IF Len(g.players) > 0 THEN g.players[1].seat
                                      ELSE NoSeat]

DealFrom(g, hero_cards, board_cards, deck) ==
    IF Len(board_cards) = 5
    THEN Dealt(g, board_cards, DealHoles(FreshPlayers(g), deck, hero_cards, 1))
    ELSE Dealt(g, Popped(deck, 5),
               DealHoles(FreshPlayers(g), AfterPop(deck, 5), hero_cards, 1))

(* deal_new_hand up to, not including, its final ask_for_action *)
Deal(g, hero_cards, board_cards, shuffled) ==
    DealFrom(g, hero_cards, board_cards,
             SelectSeq(shuffled, LAMBDA c : c \notin Range(hero_cards) \cup Range(board_cards)))

deal_new_hand(g, hero_cards, board_cards, shuffled) ==
    ask_for_action(Deal(g, hero_cards, board_cards, shuffled))

----------------
(* State, and the events of the transport layer *)

Event(ev, seat, action, amount, trace) ==
    [ev |-> ev, seat |-> seat, action |-> action, amount |-> amount, trace |-> trace]

Plain(ev) == Event(ev, NoSeat, "", 0, <<>>)

NoThreads == <<>>

Init ==
    /\ game = GameState
    /\ sid_to_seat = [s \in Sids |-> NoSeat]
    /\ last = Plain("init")
    /\ steps = 0
    /\ th = NoThreads

(* one more event is handled, while the exploration budget lasts *)
Handled == steps < MaxSteps /\ steps' = steps + 1

HeroCardInputs == {<<>>, <<Card("A", "s"), Card("K", "d")>>}
BoardInputs == {<<>>}
SetBoardInputs == {<<Card("A", "h"), Card("K", "c"), Card("7", "d")>>,
                   <<Card("A", "h"), Card("K", "c"), Card("7", "d"), Card("2", "s")>>,
                   <<Card("A", "h"), Card("K", "c"), Card("7", "d"), Card("2", "s"), Card("3", "c")>>,
                   <<Card("A", "h"), Card("K", "c")>>,
                   <<Card("A", "h"), Card("K", "c"), Card("7", "d"), Card("2", "s"), Card("3", "c"),
                     Card("9", "h")>>,
                   <<>>}
Modes == {"auto", "manual", "turbo"}

(* the duplicate-name test of on_join, lines 765-769 *)
NameTaken(g, name) ==
    \E i \in 1..Len(g.players) : Lower(g.players[i].name) = Lower(name)

(* the seat a join would get as if each join took the seat after the last *)
FreeSeatAfterLast(g) ==
    IF Len(g.players) + 1 > LastSeat THEN NoSeat ELSE Len(g.players) + 1

(* the seat search of on_join, lines 771-776: NoSeat when the table is full *)
FreeSeat(g) ==
    IF {s \in FirstSeat..LastSeat : ~HasPlayer(g, s)} = {} THEN NoSeat
    ELSE Min({s \in FirstSeat..LastSeat : ~HasPlayer(g, s)})

(* the label of a join carries the name asked for and the seat given *)
on_join(sid, name) ==
    /\ last' = Event("join_table",
                     IF NameTaken(game, name) THEN NoSeat ELSE FreeSeat(game), name, 0, <<>>)
    /\ IF NameTaken(game, name) \/ FreeSeat(game) = NoSeat
       THEN UNCHANGED <<game, sid_to_seat>>
       ELSE /\ game' = [game EXCEPT
                          !.players = Append(@, PlayerState(FreeSeat(game), name, FALSE, sid)),
                          !.stats = IF @[FreeSeat(game)].tracked THEN @
                                    ELSE [@ EXCEPT ![FreeSeat(game)] = PlayerStats]]
            /\ sid_to_seat' = [sid_to_seat EXCEPT ![sid] = FreeSeat(game)]
    /\ Handled
    /\ UNCHANGED th

RemoveSeat(g, seat) ==
    LET i == PlayerIndex(g, seat)
    IN  [g EXCEPT !.players = SubSeq(@, 1, i - 1) \o SubSeq(@, i + 1, Len(@))]

(* a departure as if the seat were removed without being taken out of to_act *)
RemoveKeepsToAct(g, seat) == RemoveSeat(g, seat)

(* what on_player_leave, on_disconnect and on_hero_kick do to a present seat *)
FoldAndRemove(g, seat) ==
    LET p == find_player_by_seat(g, seat)
        folded == [SetPlayer(g, seat, [p EXCEPT !.folded = TRUE])
                      EXCEPT !.to_act = @ \ {seat}]
    IN  IF g.hand_running
        THEN RemoveSeat(check_hand_end_if_one_left(folded), seat)
        ELSE RemoveSeat(g, seat)

Departure(ev, sid) ==
    LET seat == sid_to_seat[sid]
    IN  /\ Handled
        /\ last' = Event(ev, seat, "", 0, <<>>)
        /\ game' = IF seat # NoSeat /\ HasPlayer(game, seat)
                   THEN FoldAndRemove(game, seat) ELSE game
        /\ sid_to_seat' = [sid_to_seat EXCEPT ![sid] = NoSeat]
        /\ UNCHANGED th

on_player_leave(sid) == Departure("player_leave", sid)

on_disconnect(sid) == Departure("disconnect", sid)

(* on_hero_start up to the deal: the hero is seated when it is not yet *)
WithHero(g) ==
    IF HasPlayer(g, HERO_SEAT) THEN g
    ELSE [g EXCEPT !.players = <<PlayerState(HERO_SEAT, "Hero AI", TRUE, NoSid)>> \o @,
                   !.stats = IF @[HERO_SEAT].tracked THEN @
                             ELSE [@ EXCEPT ![HERO_SEAT] = PlayerStats]]

on_hero_start(hero_cards, board_cards, key) ==
        /\ Handled
        /\ \E x \in {deal_new_hand(Begin(WithHero(game)), hero_cards, board_cards,
                                   make_deck(key))} :
             /\ game' = GameOf(x)
             /\ last' = Event("hero_start_hand", NoSeat, "", 0, x.trace)
        /\ UNCHANGED <<sid_to_seat, th>>

(* on_hero_reset and on_reset_table *)
reset_game ==
    /\ Handled
    /\ game' = GameState
    /\ sid_to_seat' = [s \in Sids |-> NoSeat]
    /\ last' = Plain("reset_table")
    /\ UNCHANGED th

on_hero_soft_reset ==
    /\ Handled
    /\ game' = soft_reset(game)
    /\ last' = Plain("hero_soft_reset")
    /\ UNCHANGED <<sid_to_seat, th>>

on_hero_set_mode(mode) ==
    LET set == [Begin(game) EXCEPT !.hero_mode = mode]
    IN  \E x \in {IF mode = "auto" /\ HasPlayer(set, HERO_SEAT) /\ set.hand_running
                      /\ HERO_SEAT \in set.to_act
                   THEN ask_for_action(set) ELSE set} :
        /\ Handled
        /\ last' = Event("hero_set_mode", NoSeat, mode, 0,
                         IF mode \in {"auto", "manual"} THEN x.trace ELSE <<>>)
        /\ game' = IF mode \in {"auto", "manual"} THEN GameOf(x) ELSE game
        /\ UNCHANGED <<sid_to_seat, th>>

on_hero_action(action, amount) ==
    \E x \in {IF ~HasPlayer(game, HERO_SEAT) \/ ~game.hand_running THEN Begin(game)
              ELSE IF HERO_SEAT \notin game.to_act THEN Begin(game)
              ELSE apply_action(Begin(game), HERO_SEAT, action, amount)} :
        /\ Handled
        /\ game' = GameOf(x)
        /\ last' = Event("hero_action", HERO_SEAT, action, amount, x.trace)
        /\ UNCHANGED <<sid_to_seat, th>>

on_hero_set_board(cards) ==
    /\ Handled
    /\ game' = manual_set_board(game, cards)
    /\ last' = Event("hero_set_board", NoSeat, "", Len(cards), <<>>)
    /\ UNCHANGED <<sid_to_seat, th>>

on_hero_kick(seat) ==
    LET kick_sids == {s \in Sids : sid_to_seat[s] = seat}
        kick_sid == IF kick_sids = {} THEN NoSid ELSE Min(kick_sids)
        known == seat # HERO_SEAT /\ HasPlayer(game, seat)
    IN  /\ Handled
        /\ last' = Event("hero_kick", seat, "", 0, <<>>)
        /\ game' = IF known THEN FoldAndRemove(game, seat) ELSE game
        /\ sid_to_seat' = IF known /\ kick_sid # NoSid
                          THEN [sid_to_seat EXCEPT ![kick_sid] = NoSeat]
                          ELSE sid_to_seat
        /\ UNCHANGED th

on_player_action(seat, action, amount) ==
    \E x \in {IF ~HasPlayer(game, seat) \/ ~game.hand_running THEN Begin(game)
              ELSE apply_action(Begin(game), seat, action, amount)} :
        /\ Handled
        /\ game' = GameOf(x)
        /\ last' = Event("player_action", seat, action, amount, x.trace)
        /\ UNCHANGED <<sid_to_seat, th>>

(* the amounts worth sending with an action: only RAISE reads the amount *)
AmountsFor(action) == IF action = "RAISE" THEN Amounts ELSE {0}

SeatInputs == HERO_SEAT..NumSids

(* a handler run that changes the table; a run that changes nothing is a *)
(* stuttering step of the table                                           *)
Changed == <<game, sid_to_seat>>' # <<game, sid_to_seat>>

Next ==
    \/ \E j \in Joins : on_join(j[1], j[2]) /\ Changed
    \/ \E sid \in Sids : on_player_leave(sid) /\ Changed
    \/ \E sid \in Sids : on_disconnect(sid) /\ Changed
    \/ \E hc \in HeroCardInputs, bc \in BoardInputs, key \in ShuffleKeys :
          on_hero_start(hc, bc, key)
    \/ reset_game /\ Changed
    \/ on_hero_soft_reset /\ Changed
    \/ \E mode \in Modes : on_hero_set_mode(mode) /\ Changed
    \/ \E action \in Actions : \E amount \in AmountsFor(action) :
          on_hero_action(action, amount) /\ Changed
    \/ \E cards \in SetBoardInputs : on_hero_set_board(cards) /\ Changed
    \/ \E seat \in SeatInputs : on_hero_kick(seat) /\ Changed
    \/ \E seat \in SeatInputs, action \in Actions : \E amount \in AmountsFor(action) :
          on_player_action(seat, action, amount) /\ Changed

Spec == Init /\ [][Next]_vars

(* the same handlers, with the player actions that change nothing observed *)
(* as steps too                                                            *)
NextObs ==
    \/ Next
    \/ \E seat \in SeatInputs, action \in Actions : on_player_action(seat, action, 0)

SpecObs == Init /\ [][NextObs]_vars

----------------------------------------------------------------------------
(* Handler threads.  The server runs with async_mode="threading"          *)
(* (src/app.py:14): every inbound event is handled on a thread of its own *)
(* and the handlers take no lock, so the statements of two handlers of    *)
(* player_action interleave.  A thread is followed statement by statement *)
(* through on_player_action and apply_action up to line 655; the rest of  *)
(* apply_action (lines 657-684) is taken as one step.                     *)

NumThreads == 2

Threads == 1..NumThreads

ThreadActions == {"CHECK", "CALL"}

ThreadSeats == FirstSeat..NumSids

Idle == [pc |-> "idle", seat |-> NoSeat, action |-> "", call_amount |-> 0,
         turn |-> NoStreet, paid |-> FALSE]

(* the table two clients joined, after hero_start_hand with hero cards As Kd *)
DealtTable ==
    GameOf(deal_new_hand(
        Begin([GameState EXCEPT
                 !.players = <<PlayerState(HERO_SEAT, "Hero AI", TRUE, NoSid),
                               PlayerState(1, "Ann", FALSE, 1),
                               PlayerState(2, "Bob", FALSE, 2)>>,
                 !.stats = [s \in AllSeats |-> IF s <= 2 THEN PlayerStats ELSE NoStats]]),
        <<Card("A", "s"), Card("K", "d")>>, <<>>, make_deck(5)))

InitThreads ==
    /\ game = DealtTable
    /\ sid_to_seat = [s \in Sids |-> IF s <= 2 THEN s ELSE NoSeat]
    /\ last = Plain("hero_start_hand")
    /\ steps = 0
    /\ th = [t \in Threads |-> Idle]

Goto(t, pc) == th' = [th EXCEPT ![t].pc = pc]

(* a player_action event arrives and is given to thread t *)
Dispatch(t, seat, action) ==
    /\ th[t].pc = "idle"
    /\ th' = [th EXCEPT ![t] = [Idle EXCEPT !.pc = "entry", !.seat = seat,
                                            !.action = action]]
    /\ UNCHANGED <<game, sid_to_seat, last, steps>>

(* on_player_action, lines 932-934 *)
Entry(t) ==
    /\ th[t].pc = "entry"
    /\ IF ~HasPlayer(game, th[t].seat) \/ ~game.hand_running
       THEN Goto(t, "done") ELSE Goto(t, "guard")
    /\ UNCHANGED <<game, sid_to_seat, last, steps>>

(* apply_action, line 638 *)
Guard(t) ==
    /\ th[t].pc = "guard"
    /\ IF Rejected(game, th[t].seat)
       THEN Goto(t, "done")
       ELSE th' = [th EXCEPT ![t].pc = "act", ![t].turn = game.street]
    /\ UNCHANGED <<game, sid_to_seat, last, steps>>

(* apply_action, line 652 (CALL); CHECK goes on to line 649 *)
Act(t) ==
    /\ th[t].pc = "act"
    /\ IF th[t].action = "CALL"
       THEN th' = [th EXCEPT ![t].pc = "pay_chips",
                             ![t].call_amount =
                                 Min2(find_player_by_seat(game, th[t].seat).chips,
                                      game.current_bet)]
       ELSE Goto(t, "discard")
    /\ UNCHANGED <<game, sid_to_seat, last, steps>>

(* apply_action, line 653 *)
PayChips(t) ==
    /\ th[t].pc = "pay_chips"
    /\ game' = SetPlayer(game, th[t].seat,
                  [find_player_by_seat(game, th[t].seat) EXCEPT !.chips = @ - th[t].call_amount])
    /\ th' = [th EXCEPT ![t].pc = "pay_pot", ![t].paid = TRUE]
    /\ UNCHANGED <<sid_to_seat, last, steps>>

(* apply_action, line 654 *)
PayPot(t) ==
    /\ th[t].pc = "pay_pot"
    /\ game' = [game EXCEPT !.pot = @ + th[t].call_amount]
    /\ Goto(t, "discard")
    /\ UNCHANGED <<sid_to_seat, last, steps>>

(* apply_action, lines 649, 655 *)
Discard(t) ==
    /\ th[t].pc = "discard"
    /\ game' = [game EXCEPT !.to_act = @ \ {th[t].seat}]
    /\ Goto(t, "tail")
    /\ UNCHANGED <<sid_to_seat, last, steps>>

(* apply_action, lines 657-684 *)
Finish(t) ==
    /\ th[t].pc = "tail"
    /\ \E x \in {AfterAction(
                   Begin([game EXCEPT !.stats =
                            IF th[t].action = "CALL" /\ th[t].turn = "preflop"
                               /\ th[t].call_amount > 0
                            THEN Bump(@, th[t].seat, "vpip_hands") ELSE @]),
                   th[t].seat)} :
          /\ game' = GameOf(x)
          /\ last' = Event("player_action", th[t].seat, th[t].action, 0, x.trace)
    /\ Goto(t, "done")
    /\ UNCHANGED <<sid_to_seat, steps>>

NextThreads ==
    \/ \E t \in Threads, seat \in ThreadSeats, action \in ThreadActions :
          Dispatch(t, seat, action)
    \/ \E t \in Threads : Entry(t)
    \/ \E t \in Threads : Guard(t)
    \/ \E t \in Threads : Act(t)
    \/ \E t \in Threads : PayChips(t)
    \/ \E t \in Threads : PayPot(t)
    \/ \E t \in Threads : Discard(t)
    \/ \E t \in Threads : Finish(t)

SpecThreads == InitThreads /\ [][NextThreads]_vars

----------------------------------------------------------------------------
(* Properties *)

(* the calls of apply_action the most recent event made *)
Entries == {last.trace[i] : i \in 1..Len(last.trace)}

ChipsOf(snap, seat) ==
    snap.players[Min({i \in 1..Len(snap.players) : snap.players[i].seat = seat})].chips

ActiveOf(snap) ==
    {snap.players[i].seat : i \in {j \in 1..Len(snap.players) : ~snap.players[j].folded}}

(* the part of the table a dropped action must leave alone *)
Table(g) == <<g.pot, g.players, g.to_act, g.current_bet, g.current_player_seat>>

(* C1: a player_action sent during a running hand by a seat other than the *)
(* current seat leaves pot, stacks, folded flags, to_act, current_bet and   *)
(* current_player_seat unchanged.                                           *)
C1_OutOfTurnActionDropped ==
    [][(/\ steps' = steps + 1
        /\ last'.ev = "player_action"
        /\ game.hand_running
        /\ last'.seat # game.current_player_seat)
          => Table(game') = Table(game)]_vars

(* C2: a player_action or hero_action whose seat is not in to_act, or that *)
(* arrives while no hand is running, changes nothing of the table state.    *)
C2_RejectedActionChangesNothing ==
    [][(/\ steps' = steps + 1
        /\ last'.ev \in {"player_action", "hero_action"}
        /\ (~game.hand_running \/ last'.seat \notin game.to_act))
          => game' = game]_vars

(* C2 happens: a seated player's action was just dropped during a running *)
(* hand because the seat had already left to_act.                          *)
C2_Witness ==
    /\ last.ev = "player_action"
    /\ last.trace = <<>>
    /\ game.hand_running
    /\ HasPlayer(game, last.seat)
    /\ last.seat \notin game.to_act

(* C3: when an applied action leaves exactly one non-folded seat, the hand *)
(* stops running, exactly one record is appended to the history with that   *)
(* seat as its only winner, and nothing advances after it: it is the last   *)
(* action the handler applies, and street, to_act and current seat stay as  *)
(* the action left them.                                                    *)
C3_OneLeftEndsHand ==
    \A i \in 1..Len(last.trace) :
        Cardinality(ActiveOf(last.trace[i].mid)) = 1 =>
            /\ i = Len(last.trace)
            /\ ~game.hand_running
            /\ Len(game.hand_history) = last.trace[i].pre.nhist + 1
            /\ {p.seat : p \in {q \in Range(game.hand_history[Len(game.hand_history)].players) :
                                  q.winner}}
                 = ActiveOf(last.trace[i].mid)
            /\ game.street = last.trace[i].mid.street
            /\ game.to_act = last.trace[i].mid.to_act
            /\ game.current_player_seat = last.trace[i].mid.current_player_seat

(* C3 happens: an action left one active seat while to_act was not empty *)
C3_Witness ==
    \E e \in Entries :
        /\ Cardinality(ActiveOf(e.mid)) = 1
        /\ e.mid.to_act # {}
        /\ ~game.hand_running

(* C4: after a disconnect or a leave that leaves the hand running, some *)
(* remaining seat still owes an action.                                  *)
C4_DepartureKeepsHandProgressing ==
    (last.ev \in {"disconnect", "player_leave"} /\ game.hand_running)
        => game.to_act # {}

(* C5: no applied action makes the pot negative or smaller than it was *)
C5_PotNeverDecreases ==
    \A e \in Entries : e.mid.pot >= 0 /\ e.mid.pot >= e.pre.pot

(* C6: no stack is negative, neither after a handler nor right after any *)
(* action it applied.                                                     *)
C6_StacksNeverNegative ==
    /\ \A i \in 1..Len(game.players) : game.players[i].chips >= 0
    /\ \A e \in Entries : \A i \in 1..Len(e.mid.players) : e.mid.players[i].chips >= 0

(* C6 happens: a RAISE facing a bet asked for more than the stack and was *)
(* clamped to it.                                                          *)
C6_Witness ==
    \E e \in Entries :
        /\ e.action = "RAISE"
        /\ e.pre.current_bet > 0
        /\ e.amount > ChipsOf(e.pre, e.seat)
        /\ ChipsOf(e.mid, e.seat) = 0

(* C7: RAISE by a seat with stack s facing bet b with amount a deducts *)
(* p = min(min(s,b)+a, s), adds p to the pot and sets current_bet to p. *)
C7_RaisePaysWhatItBets ==
    \A e \in Entries :
        e.action = "RAISE" =>
            /\ ChipsOf(e.mid, e.seat) = ChipsOf(e.pre, e.seat)
                 - Min2(Min2(ChipsOf(e.pre, e.seat), e.pre.current_bet) + e.amount,
                        ChipsOf(e.pre, e.seat))
            /\ e.mid.pot = e.pre.pot
                 + Min2(Min2(ChipsOf(e.pre, e.seat), e.pre.current_bet) + e.amount,
                        ChipsOf(e.pre, e.seat))
            /\ e.mid.current_bet =
                   Min2(Min2(ChipsOf(e.pre, e.seat), e.pre.current_bet) + e.amount,
                        ChipsOf(e.pre, e.seat))

(* C8: right after CALL by a seat in to_act, the seat has left to_act, *)
(* current_bet is unchanged, and min(old stack, current_bet) has moved  *)
(* from the seat's stack to the pot.                                    *)
C8_CallEffect ==
    \A e \in Entries :
        e.action = "CALL" =>
            /\ e.seat \in e.pre.to_act
            /\ e.mid.to_act = e.pre.to_act \ {e.seat}
            /\ e.mid.current_bet = e.pre.current_bet
            /\ ChipsOf(e.mid, e.seat)
                 = ChipsOf(e.pre, e.seat) - Min2(ChipsOf(e.pre, e.seat), e.pre.current_bet)
            /\ e.mid.pot = e.pre.pot + Min2(ChipsOf(e.pre, e.seat), e.pre.current_bet)

(* C8 happens: a CALL by a seat whose stack is smaller than the bet *)
C8_Witness ==
    \E e \in Entries :
        /\ e.action = "CALL"
        /\ e.pre.current_bet > 0
        /\ ChipsOf(e.pre, e.seat) < e.pre.current_bet

(* C9: right after RAISE by seat X, to_act is exactly the set of *)
(* non-folded seats other than X.                                 *)
C9_RaiseReopensAction ==
    \A e \in Entries :
        e.action = "RAISE" => e.mid.to_act = ActiveOf(e.mid) \ {e.seat}

(* C9 happens: a RAISE put a seat back into to_act that had already acted *)
C9_Witness ==
    \E e \in Entries :
        /\ e.action = "RAISE"
        /\ e.mid.to_act \ e.pre.to_act # {}

(* C10: two player_action events for the same seat and the same turn do *)
(* not both pass the guard of apply_action and pay.                      *)
C10_SameTurnPaysOnce ==
    \A t1, t2 \in DOMAIN th :
        (/\ t1 # t2
         /\ th[t1].seat = th[t2].seat
         /\ th[t1].turn = th[t2].turn
         /\ th[t1].paid)
            => ~th[t2].paid

(***************************************************************************)
(* Cards of a hand: where each card of the deck may be.                    *)
(***************************************************************************)
HoleCardsOf(g, i) == Range(g.players[i].hole_cards)

BoardCards(g) == Range(g.board) \cup Range(g.full_board)

(* C11: in every state of a running hand the deck, the hole cards of every  *)
(* seat and the board (exposed and full) are pairwise disjoint: no card is  *)
(* in two of these places, whatever hero cards, board or manual board       *)
(* override the hand was given.                                             *)
C11_CardsDisjoint ==
    game.hand_running =>
        /\ Range(game.deck) \cap BoardCards(game) = {}
        /\ \A i \in 1..Len(game.players) :
              /\ HoleCardsOf(game, i) \cap Range(game.deck) = {}
              /\ HoleCardsOf(game, i) \cap BoardCards(game) = {}
              /\ \A j \in 1..Len(game.players) :
                    i # j => HoleCardsOf(game, i) \cap HoleCardsOf(game, j) = {}

(* C12: whenever a running hand ends (hand_running goes from true to false) *)
(* exactly one HandRecord is appended to the history, and the records that  *)
(* were already there stay as they were: the history only grows by          *)
(* appending.                                                               *)
C12_HandEndAppendsOneRecord ==
    [][/\ Len(game'.hand_history) >= Len(game.hand_history)
       /\ SubSeq(game'.hand_history, 1, Len(game.hand_history)) = game.hand_history
       /\ (game.hand_running /\ ~game'.hand_running) =>
             Len(game'.hand_history) = Len(game.hand_history) + 1]_vars

(***************************************************************************)
(* Showdown records.  A record of the history is read back as the table it *)
(* was taken from: its players and its board.                              *)
(***************************************************************************)
History == {game.hand_history[k] : k \in 1..Len(game.hand_history)}

(* the records written by a showdown over a complete board *)
ByShowdown(r) ==
    /\ Len(r.board) = 5
    /\ r.note[1] \in {"Winners: ", "No active players to evaluate."}

(* the seats of a record that are not folded and hold two hole cards *)
InShowdown(r) ==
    {i \in 1..Len(r.players) : ~r.players[i].folded /\ Len(r.players[i].hole_cards) = 2}

BestRanks(r) ==
    ToSeq([i \in 1..Len(r.players) |->
             IF i \in InShowdown(r)
             THEN best_5_from_7(r.players[i].hole_cards \o r.board)[1]
             ELSE <<>>])

HoldsBest(r, ranks, i) ==
    /\ i \in InShowdown(r)
    /\ \A j \in InShowdown(r) : ~RankGreater(ranks[j], ranks[i])

WinnersMatch(r, ranks) ==
    \A i \in 1..Len(r.players) : r.players[i].winner <=> HoldsBest(r, ranks, i)

KnownActions == {"FOLD", "CHECK", "CALL", "RAISE"}

(* C14: an action whose name is none of FOLD, CHECK, CALL, RAISE, sent for  *)
(* a seat of to_act while a hand is running, is ignored: pot, stacks,       *)
(* folded flags, to_act, current_bet, current_player_seat and street are    *)
(* what they were before it.                                                *)
C14_UnknownActionIgnored ==
    [][(/\ steps' = steps + 1
        /\ last'.ev \in {"player_action", "hero_action"}
        /\ last'.action \notin KnownActions
        /\ game.hand_running
        /\ last'.seat \in game.to_act)
          => /\ Table(game') = Table(game)
             /\ game'.street = game.street]_vars

(***************************************************************************)
(* The table right after a deal: the snapshot taken before the first       *)
(* action of the handler, or the state the handler left when it applied    *)
(* none.                                                                   *)
(***************************************************************************)
DealtSnap(l, g) == IF l.trace = <<>> THEN Snap(g) ELSE l.trace[1].pre

SeatsOf(snap) == {snap.players[i].seat : i \in 1..Len(snap.players)}

FreshHand(before, d) ==
    /\ d.hand_running
    /\ Len(d.players) >= 1
    /\ \A i \in 1..Len(d.players) :
          /\ d.players[i].chips = StartChips
          /\ ~d.players[i].folded
          /\ Len(d.players[i].hole_cards) = 2
          /\ d.stats[d.players[i].seat].hands_played
               = before.stats[d.players[i].seat].hands_played + 1
    /\ d.pot = 0
    /\ d.current_bet = 0
    /\ d.street = "preflop"
    /\ d.board = <<>>
    /\ d.to_act = SeatsOf(d)
    /\ d.current_player_seat = Min(SeatsOf(d))

(* C15: right after a hand start, before any action is applied, every seat  *)
(* has a stack of 1000, is not folded and holds exactly two hole cards; pot *)
(* and current_bet are 0, the street is preflop, the exposed board is       *)
(* empty, to_act is the set of all seats, current_player_seat is the lowest *)
(* seat index, and each seat's hands_played has grown by exactly 1.         *)
C15_HandStartState ==
    [][(steps' = steps + 1 /\ last'.ev = "hero_start_hand")
          => FreshHand(game, DealtSnap(last', game'))]_vars

(* a second hand dealt to two seats, after a hand that moved chips *)
C15_Witness ==
    /\ last.ev = "hero_start_hand"
    /\ Len(DealtSnap(last, game).players) >= 2
    /\ game.stats[HERO_SEAT].hands_played >= 2
    /\ \E s \in FirstSeat..LastSeat : game.stats[s].vpip_hands >= 1

(***************************************************************************)
(* Seating.  The tables a run of joins leaves: the first k of six guests   *)
(* on seats 1..k, each from a client of its own.  Joins and departures are *)
(* then applied to them, a rejected join being a step like any other.      *)
(***************************************************************************)
SeatedNames == <<"Ann", "Bob", "Cat", "Dan", "Eve", "Fay">>

SeatNames == {"Ann", "ANN", "Gus", "Hal"}

Seated(k) ==
    [GameState EXCEPT
        !.players = ToSeq([i \in 1..k |-> PlayerState(i, SeatedNames[i], FALSE, i)]),
        !.stats = [s \in AllSeats |-> IF s \in 1..k THEN PlayerStats ELSE NoStats]]

InitSeats ==
    /\ \E k \in 0..LastSeat : 
          /\ game = Seated(k)
          /\ sid_to_seat = [s \in Sids |-> IF s <= k THEN s ELSE NoSeat]
    /\ last = Plain("init")
    /\ steps = 0
    /\ th = NoThreads

NextSeats ==
    \/ \E sid \in Sids, name \in SeatNames : on_join(sid, name)
    \/ \E sid \in Sids : on_player_leave(sid)
    \/ \E key \in ShuffleKeys : on_hero_start(<<>>, <<>>, key)

SpecSeats == InitSeats /\ [][NextSeats]_vars

SameName(a, b) == LowerCase[a] = LowerCase[b]

NameAtTable(g, name) == \E i \in 1..Len(g.players) : SameName(g.players[i].name, name)

FreeSeats(g) ==
    {s \in FirstSeat..LastSeat : \A i \in 1..Len(g.players) : g.players[i].seat # s}

DistinctSeats(g) ==
    \A i, j \in 1..Len(g.players) : i # j => g.players[i].seat # g.players[j].seat

(* C16: a join is given the lowest free seat of 1..6 and the seat indices   *)
(* at the table stay pairwise distinct; a join under a name already at the  *)
(* table (compared without regard to case), or at a table with no free      *)
(* seat, is rejected and leaves seat list, stats and hand state unchanged.  *)
C16_JoinSeating ==
    [][(steps' = steps + 1 /\ last'.ev = "join_table") =>
          IF NameAtTable(game, last'.action) \/ FreeSeats(game) = {}
          THEN game' = game /\ sid_to_seat' = sid_to_seat /\ last'.seat = NoSeat
          ELSE /\ Len(game'.players) = Len(game.players) + 1
               /\ SubSeq(game'.players, 1, Len(game.players)) = game.players
               /\ game'.players[Len(game'.players)].seat = Min(FreeSeats(game))
               /\ game'.players[Len(game'.players)].name = last'.action
               /\ last'.seat = Min(FreeSeats(game))
               /\ DistinctSeats(game')]_vars

(* a join under a new name refused at a full table while a hand is running *)
C16_Witness ==
    /\ last.ev = "join_table"
    /\ last.seat = NoSeat
    /\ FreeSeats(game) = {}
    /\ ~NameAtTable(game, last.action)
    /\ game.hand_running

(***************************************************************************)
(* Manual board override.  The label of the event carries the number of    *)
(* cards; the inputs have different lengths, so it names the cards given.  *)
(***************************************************************************)
BoardInput(n) == CHOOSE cards \in SetBoardInputs : Len(cards) = n

StreetOf(n) == IF n = 3 THEN "flop" ELSE IF n = 4 THEN "turn" ELSE "river"

IsPrefix(s, t) == Len(s) <= Len(t) /\ SubSeq(t, 1, Len(s)) = s

(* C17: a manual board override with n in {3, 4, 5} cards during a running  *)
(* hand sets the exposed board to exactly those cards and the street to     *)
(* flop, turn or river; the first n cards of the full board become those    *)
(* cards and the other 5 - n stay as they were, so the exposed board is     *)
(* still a prefix of the full board.                                        *)
C17_OverrideKeepsPrefix ==
    [][(/\ steps' = steps + 1
        /\ last'.ev = "hero_set_board"
        /\ last'.amount \in 3..5
        /\ game.hand_running)
          => /\ game'.board = BoardInput(last'.amount)
             /\ game'.street = StreetOf(last'.amount)
             /\ Len(game'.full_board) = 5
             /\ SubSeq(game'.full_board, 1, last'.amount) = BoardInput(last'.amount)
             /\ \A i \in (last'.amount + 1)..5 : game'.full_board[i] = game.full_board[i]
             /\ IsPrefix(game'.board, game'.full_board)]_vars

(* a 3-card or 4-card override applied to a running hand *)
C17_Witness ==
    /\ last.ev = "hero_set_board"
    /\ last.amount \in {3, 4}
    /\ game.hand_running
    /\ game.board = BoardInput(last.amount)
    /\ Len(game.full_board) = 5
    /\ game.full_board # game.board

(* the events of Next, and every manual board override, applied or not *)
NextBoard ==
    \/ Next
    \/ \E cards \in SetBoardInputs : on_hero_set_board(cards)

SpecBoard == Init /\ [][NextBoard]_vars

(* C18: a manual board override whose number of cards is outside 3..5 is    *)
(* rejected: board, full board, street, pot, stacks, to_act, current_bet    *)
(* and current_player_seat are what they were before it.                    *)
C18_BadOverrideRejected ==
    [][(/\ steps' = steps + 1
        /\ last'.ev = "hero_set_board"
        /\ last'.amount \notin 3..5)
          => /\ game'.board = game.board
             /\ game'.full_board = game.full_board
             /\ game'.street = game.street
             /\ Table(game') = Table(game)]_vars

(* a 2-card or 6-card override sent while a hand is running and owed actions *)
C18_Witness ==
    /\ last.ev = "hero_set_board"
    /\ last.amount \in {2, 6}
    /\ game.hand_running
    /\ game.to_act # {}
    /\ Len(game.full_board) = 5

StatsNotBelow(new, old) ==
    \A s \in AllSeats :
        /\ new[s].hands_played >= old[s].hands_played
        /\ new[s].vpip_hands >= old[s].vpip_hands
        /\ new[s].pfr_hands >= old[s].pfr_hands

(* C19: hands_played, vpip_hands and pfr_hands of a seat never decrease     *)
(* under any event other than a full reset; a soft reset clears the hand    *)
(* state (hand_running false, pot 0, board empty, to_act empty) and leaves  *)
(* the set of seats, every statistics counter and the history unchanged.    *)
C19_StatsSurviveSoftReset ==
    [][/\ last'.ev # "reset_table" => StatsNotBelow(game'.stats, game.stats)
       /\ (steps' = steps + 1 /\ last'.ev = "hero_soft_reset")
             => /\ ~game'.hand_running
                /\ game'.pot = 0
                /\ game'.board = <<>>
                /\ game'.to_act = {}
                /\ SeatsOf(game') = SeatsOf(game)
                /\ game'.stats = game.stats
                /\ game'.hand_history = game.hand_history]_vars

(* a soft reset after two hands were dealt, with a record in the history    *)
(* and counters above zero                                                  *)
C19_Witness ==
    /\ last.ev = "hero_soft_reset"
    /\ ~game.hand_running
    /\ Len(game.hand_history) >= 1
    /\ game.stats[HERO_SEAT].hands_played >= 2
    /\ Len(game.players) >= 1

(***************************************************************************)
(* The 5-card evaluator on its own.  Two hands are drawn from a deck of    *)
(* ten cards that holds every category, the wheel included; evaluate_5 is  *)
(* applied to both.                                                        *)
(***************************************************************************)
EvalDeck ==
    <<Card("2", "s"), Card("3", "s"), Card("4", "s"), Card("5", "s"), Card("6", "s"),
      Card("A", "s"), Card("2", "h"), Card("2", "d"), Card("2", "c"), Card("3", "h")>>

EvalHands ==
    {SelectSeq(EvalDeck, LAMBDA c : c \in S) :
        S \in {T \in SUBSET Range(EvalDeck) : Cardinality(T) = 5}}

InitEval ==
    /\ game = GameState
    /\ sid_to_seat = [s \in Sids |-> NoSeat]
    /\ steps = 0
    /\ th = NoThreads
    /\ \E h1, h2 \in EvalHands : last = Event("evaluate_5", NoSeat, "", 0, <<h1, h2>>)

Evaluate ==
    /\ last.ev = "evaluate_5"
    /\ last' = [last EXCEPT !.ev = "evaluated",
                            !.trace = @ \o <<evaluate_5(@[1]), evaluate_5(@[2])>>]
    /\ UNCHANGED <<game, sid_to_seat, steps, th>>

NextEval == Evaluate

SpecEval == InitEval /\ [][NextEval]_vars

(* The reference classifier: the category of a hand read off the set of    *)
(* its ranks and suits.                                                    *)
RankNum(c) == (c \div 4) + 2

RankSet(hand) == {RankNum(hand[i]) : i \in 1..5}

Copies(hand, v) == Cardinality({i \in 1..5 : RankNum(hand[i]) = v})

OneSuit(hand) == \A i \in 1..5 : hand[i] % 4 = hand[1] % 4

InRow(hand) ==
    /\ Cardinality(RankSet(hand)) = 5
    /\ \/ \E lo \in 2..10 : RankSet(hand) = lo..(lo + 4)
       \/ RankSet(hand) = {14, 2, 3, 4, 5}

RefCategory(hand) ==
    CASE OneSuit(hand) /\ InRow(hand) -> 8
      [] \E v \in RankSet(hand) : Copies(hand, v) = 4 -> 7
      [] Cardinality(RankSet(hand)) = 2 -> 6
      [] OneSuit(hand) -> 5
      [] InRow(hand) -> 4
      [] \E v \in RankSet(hand) : Copies(hand, v) = 3 -> 3
      [] Cardinality(RankSet(hand)) = 3 -> 2
      [] Cardinality(RankSet(hand)) = 4 -> 1
      [] OTHER -> 0

(* C20: for every 5-card hand of distinct cards evaluate_5 returns the      *)
(* category the reference classifier gives it (0 high card .. 8 straight    *)
(* flush), and the rank of a hand of a higher category compares greater     *)
(* than the rank of a hand of a lower category.                             *)
C20_CategoryMatchesReference ==
    last.ev = "evaluated" =>
        /\ last.trace[3][1] = RefCategory(last.trace[1])
        /\ last.trace[4][1] = RefCategory(last.trace[2])
        /\ RefCategory(last.trace[1]) > RefCategory(last.trace[2])
              => /\ RankGreater(last.trace[3], last.trace[4])
                 /\ ~RankGreater(last.trace[4], last.trace[3])

(* the wheel straight flush evaluated against four of a kind *)
C20_Witness ==
    /\ last.ev = "evaluated"
    /\ RankSet(last.trace[1]) = {14, 2, 3, 4, 5}
    /\ last.trace[3][1] = 8
    /\ last.trace[4][1] = 7

IsWheel(hand) == RankSet(hand) = {14, 2, 3, 4, 5}

SixHigh(hand) == RankSet(hand) = 2..6

(* C21: a hand with the ranks A, 2, 3, 4, 5 that is not a flush ranks as a  *)
(* straight (category 4) with high card 5, strictly below every six-high    *)
(* straight 2..6 and strictly above every three of a kind; with one suit it *)
(* is a straight flush with high card 5.                                    *)
C21_WheelIsFiveHigh ==
    (last.ev = "evaluated" /\ IsWheel(last.trace[1])) =>
        IF OneSuit(last.trace[1]) THEN last.trace[3] = <<8, <<5>>>>
        ELSE /\ last.trace[3] = <<4, <<5>>>>
             /\ SixHigh(last.trace[2]) =>
                   /\ RankGreater(last.trace[4], last.trace[3])
                   /\ ~RankGreater(last.trace[3], last.trace[4])
             /\ RefCategory(last.trace[2]) = 3 =>
                   /\ RankGreater(last.trace[3], last.trace[4])
                   /\ ~RankGreater(last.trace[4], last.trace[3])

(* a wheel of mixed suits evaluated against a six-high straight of mixed    *)
(* suits                                                                    *)
C21_Witness ==
    /\ last.ev = "evaluated"
    /\ IsWheel(last.trace[1]) /\ ~OneSuit(last.trace[1])
    /\ SixHigh(last.trace[2]) /\ ~OneSuit(last.trace[2])
    /\ last.trace[3][1] = 4

(***************************************************************************)
(* The 7-card evaluator on its own.  Seven cards are drawn from EvalDeck,  *)
(* in deck order and in a second order; best_5_from_7 is applied to both.  *)
(***************************************************************************)
Perms7 == {<<1, 2, 3, 4, 5, 6, 7>>, <<7, 6, 5, 4, 3, 2, 1>>, <<4, 1, 7, 2, 6, 3, 5>>}

SevenCards ==
    {SelectSeq(EvalDeck, LAMBDA c : c \in S) :
        S \in {T \in SUBSET Range(EvalDeck) : Cardinality(T) = 7}}

Permuted(cards, p) == ToSeq([i \in 1..Len(p) |-> cards[p[i]]])

InitBest ==
    /\ game = GameState
    /\ sid_to_seat = [s \in Sids |-> NoSeat]
    /\ steps = 0
    /\ th = NoThreads
    /\ \E cards \in SevenCards, p \in Perms7 :
          last = Event("best_5_from_7", NoSeat, "", 0, <<cards, Permuted(cards, p)>>)

Best ==
    /\ last.ev = "best_5_from_7"
    /\ last' = [last EXCEPT !.ev = "best",
                            !.trace = @ \o <<best_5_from_7(@[1]), best_5_from_7(@[2])>>]
    /\ UNCHANGED <<game, sid_to_seat, steps, th>>

NextBest == Best

SpecBest == InitBest /\ [][NextBest]_vars

FiveOf(cards) ==
    {SelectSeq(cards, LAMBDA c : c \in S) :
        S \in {T \in SUBSET Range(cards) : Cardinality(T) = 5}}

(* C22: for seven distinct cards best_5_from_7 returns a rank that no       *)
(* 5-card subset of them exceeds, together with five distinct cards out of  *)
(* those seven whose evaluate_5 rank is the returned rank; the rank is the  *)
(* same when the seven cards are given in another order.                    *)
C22_BestOfSeven ==
    last.ev = "best" =>
        /\ \A five \in FiveOf(last.trace[2]) :
              ~RankGreater(evaluate_5(five), last.trace[4][1])
        /\ Len(last.trace[4][2]) = 5
        /\ Cardinality(Range(last.trace[4][2])) = 5
        /\ Range(last.trace[4][2]) \subseteq Range(last.trace[2])
        /\ evaluate_5(last.trace[4][2]) = last.trace[4][1]
        /\ last.trace[4][1] = last.trace[3][1]

(* seven cards given in another order whose best five are not the first     *)
(* five of them                                                             *)
C22_Witness ==
    /\ last.ev = "best"
    /\ last.trace[2] # last.trace[1]
    /\ last.trace[4][2] # SubSeq(last.trace[2], 1, 5)
    /\ RankGreater(last.trace[4][1], evaluate_5(SubSeq(last.trace[2], 1, 5)))

(* the place of a street in Preflop, Flop, Turn, River *)
StreetNum(street) ==
    CASE street = "preflop" -> 1
      [] street = "flop" -> 2
      [] street = "turn" -> 3
      [] street = "river" -> 4
      [] OTHER -> 0

(* C23: within one hand the street only moves forward along Preflop, Flop,  *)
(* Turn, River, Showdown: no event other than the start of a new hand moves *)
(* the street of a running hand back to an earlier street.                  *)
C23_StreetOnlyForward ==
    [][(/\ game.hand_running
        /\ game'.hand_running
        /\ last'.ev # "hero_start_hand")
          => StreetNum(game'.street) >= StreetNum(game.street)]_vars

Turns == {e \in Entries : e.action = "next_street"}

NextOf(street) ==
    CASE street = "preflop" -> "flop"
      [] street = "flop" -> "turn"
      [] street = "turn" -> "river"
      [] OTHER -> "showdown"

(* C24: when turn advancement runs with to_act empty during a running hand, *)
(* from preflop, flop or turn the street becomes the next one, the exposed  *)
(* board becomes the first 3, 4 or 5 cards of the full board, current_bet   *)
(* is reset to 0 and to_act to all active seats; from the river the         *)
(* showdown is evaluated, one HandRecord is appended and hand_running       *)
(* becomes false.  Pot and stacks are unchanged by the transition.          *)
C24_StreetTransition ==
    \A e \in Turns :
        /\ e.pre.hand_running /\ e.pre.to_act = {}
        /\ e.mid.pot = e.pre.pot
        /\ e.mid.players = e.pre.players
        /\ IF e.pre.street \in {"preflop", "flop", "turn"}
           THEN /\ e.mid.street = NextOf(e.pre.street)
                /\ e.mid.board = SubSeq(e.pre.full_board, 1, StreetNum(e.pre.street) + 2)
                /\ e.mid.current_bet = 0
                /\ e.mid.to_act = ActiveOf(e.mid)
                /\ e.mid.hand_running
                /\ e.mid.nhist = e.pre.nhist
           ELSE /\ e.pre.street = "river"
                /\ ~e.mid.hand_running
                /\ e.mid.nhist = e.pre.nhist + 1
                /\ ByShowdown(game.hand_history[e.mid.nhist])

(* a handler run that left the preflop with chips in the pot and a bet to   *)
(* call, two seats still in the hand                                        *)
C24_Witness ==
    \E e \in Turns :
        /\ e.pre.street = "preflop"
        /\ e.pre.pot > 0
        /\ e.pre.current_bet > 0
        /\ Cardinality(e.mid.to_act) >= 2

(* C25: whenever a hand is running, to_act is a subset of the active seats, *)
(* the seats present and not folded: no folded, departed or kicked seat is  *)
(* in to_act, after any action, street transition, join, leave, disconnect  *)
(* or kick.                                                                 *)
C25_ToActWithinActive ==
    /\ game.hand_running => game.to_act \subseteq ActiveOf(game)
    /\ \A e \in Entries : e.mid.hand_running => e.mid.to_act \subseteq ActiveOf(e.mid)

(* a running hand that a seat has just left or been kicked from, with       *)
(* another seat still owing an action                                       *)
C25_Witness ==
    /\ last.ev \in {"player_leave", "disconnect", "hero_kick"}
    /\ last.seat \in FirstSeat..LastSeat
    /\ game.hand_running
    /\ game.to_act # {}
    /\ ~HasPlayer(game, last.seat)

(* the first seat of S after seat s in circular ascending order *)
NextInOrder(S, s) ==
    IF \E x \in S : x > s THEN Min({x \in S : x > s}) ELSE Min(S)

(* the seat asked after the k-th entry of the log of a handler: the seat of *)
(* the next entry when the handler went on, and the current seat when it    *)
(* stopped there                                                            *)
AskedAfter(k) ==
    IF k < Len(last.trace) THEN last.trace[k + 1].seat ELSE game.current_player_seat

(* the applied actions of the log that neither ended the hand nor the street *)
TurnPassed ==
    {k \in 1..Len(last.trace) :
        /\ last.trace[k].action # "next_street"
        /\ last.trace[k].mid.hand_running
        /\ Cardinality(ActiveOf(last.trace[k].mid)) > 1
        /\ last.trace[k].mid.to_act # {}}

(* C26: the seat following seat s in turn order is the smallest active seat *)
(* index greater than s, or the smallest active seat index if none is       *)
(* greater; after an applied action that does not end the hand, the next    *)
(* seat asked to act is the first seat of to_act in this circular ascending *)
(* order, starting after the acting seat.                                   *)
C26_TurnOrder ==
    /\ \A s \in HERO_SEAT..LastSeat :
          ActiveOf(game) # {} => seat_order_after(game, s) = NextInOrder(ActiveOf(game), s)
    /\ \A k \in TurnPassed :
          AskedAfter(k) = NextInOrder(last.trace[k].mid.to_act, last.trace[k].seat)

(* the highest of three seats acted and the turn wrapped around to a lower  *)
(* seat that still owed its action                                          *)
C26_Witness ==
    \E k \in TurnPassed :
        /\ Cardinality(ActiveOf(last.trace[k].mid)) >= 3
        /\ AskedAfter(k) < last.trace[k].seat
        /\ \E s \in ActiveOf(last.trace[k].mid) : s < AskedAfter(k)

(***************************************************************************)
(* Turn advancement, one call at a time.  The handlers that enter the      *)
(* engine leave the call they make pending in th; AskStep and ApplyStep    *)
(* run one call of ask_for_action or apply_action up to the call it makes  *)
(* in turn; ShowdownStep runs the showdown branch, which calls nothing     *)
(* further.  th is empty while the engine waits for an event.              *)
(***************************************************************************)
Pending(pc, seat, action, amount) ==
    <<[pc |-> pc, seat |-> seat, action |-> action, amount |-> amount]>>

Asking == Pending("ask_for_action", NoSeat, "", 0)

Applying(seat, action, amount) == Pending("apply_action", seat, action, amount)

ShowingDown == Pending("build_showdown_result", NoSeat, "", 0)

Waiting == NoThreads

(* the loop as if a seat that owes nothing were asked again and again *)
AdvanceStays(g, seat) == g

(* game.current_player_seat = seat_order_after(seat) *)
Advance(g, seat) == [g EXCEPT !.current_player_seat = seat_order_after(g, seat)]

(* next_street_or_showdown of a running hand, up to its ask_for_action *)
TurnStreet(g) ==
    IF g.street = "preflop" THEN <<NewStreet(g, "flop", 3), Asking>>
    ELSE IF g.street = "flop" THEN <<NewStreet(g, "turn", 4), Asking>>
    ELSE IF g.street = "turn" THEN <<NewStreet(g, "river", 5), Asking>>
    ELSE <<g, ShowingDown>>

AskOf(g, seat, player) ==
    IF player.folded THEN <<Skipped(g, seat), Asking>>
    ELSE IF player.is_hero
    THEN IF g.hero_mode = "auto"
         THEN <<g, Applying(seat, hero_ai_decision(g, player).action,
                            hero_ai_decision(g, player).amount)>>
         ELSE <<g, Waiting>>
    ELSE IF player.sid # NoSid THEN <<g, Waiting>>
    ELSE <<Skipped(g, seat), Asking>>

AskAt(g, seat) ==
    IF seat = NoSeat THEN <<g, Waiting>>
    ELSE IF seat \notin g.to_act THEN <<Advance(g, seat), Asking>>
    ELSE IF ~HasPlayer(g, seat) THEN <<Skipped(g, seat), Asking>>
    ELSE AskOf(g, seat, find_player_by_seat(g, seat))

(* one call of ask_for_action: the table it leaves and the call it makes *)
AskNext(g) ==
    IF ~g.hand_running THEN <<g, Waiting>>
    ELSE IF g.to_act = {} THEN TurnStreet(g)
    ELSE IF g.current_player_seat = NoSeat
    THEN AskAt([g EXCEPT !.current_player_seat = FirstActive(g)], FirstActive(g))
    ELSE AskAt(g, g.current_player_seat)

ApplyEnd(g, seat) ==
    IF OneLeft(g) THEN <<EndByFoldOut(g), Waiting>> ELSE <<Advance(g, seat), Asking>>

(* one call of apply_action: the table it leaves and the call it makes *)
ApplyNext(g, seat, action, amount) ==
    IF Rejected(g, seat) THEN <<g, Waiting>>
    ELSE ApplyEnd(ApplyCore(g, seat, action, amount), seat)

AskStep ==
    /\ th # Waiting /\ th[1].pc = "ask_for_action"
    /\ \E x \in {AskNext(game)} : game' = x[1] /\ th' = x[2]
    /\ UNCHANGED <<sid_to_seat, last, steps>>

ApplyStep ==
    /\ th # Waiting /\ th[1].pc = "apply_action"
    /\ \E x \in {ApplyNext(game, th[1].seat, th[1].action, th[1].amount)} :
          game' = x[1] /\ th' = x[2]
    /\ UNCHANGED <<sid_to_seat, last, steps>>

(* the last branch of next_street_or_showdown: record the showdown, end the *)
(* hand and return                                                         *)
ShowdownStep ==
    /\ th = ShowingDown
    /\ game' = Showdown(game)
    /\ th' = Waiting
    /\ UNCHANGED <<sid_to_seat, last, steps>>

(* on_hero_start: the deal, then ask_for_action *)
StartHand(hero_cards, key) ==
    /\ th = Waiting
    /\ Handled
    /\ game' = Deal(WithHero(game), hero_cards, <<>>, make_deck(key))
    /\ th' = Asking
    /\ last' = Plain("hero_start_hand")
    /\ UNCHANGED sid_to_seat

(* on_player_action up to its apply_action *)
PlayerAct(seat, action, amount) ==
    /\ th = Waiting
    /\ Handled
    /\ HasPlayer(game, seat) /\ game.hand_running
    /\ th' = Applying(seat, action, amount)
    /\ last' = Event("player_action", seat, action, amount, <<>>)
    /\ UNCHANGED <<game, sid_to_seat>>

(* on_hero_action up to its apply_action *)
HeroAct(action, amount) ==
    /\ th = Waiting
    /\ Handled
    /\ HasPlayer(game, HERO_SEAT) /\ game.hand_running /\ HERO_SEAT \in game.to_act
    /\ th' = Applying(HERO_SEAT, action, amount)
    /\ last' = Event("hero_action", HERO_SEAT, action, amount, <<>>)
    /\ UNCHANGED <<game, sid_to_seat>>

(* on_hero_set_mode up to its ask_for_action *)
SetMode(mode) ==
    /\ th = Waiting
    /\ Handled
    /\ game' = [game EXCEPT !.hero_mode = mode]
    /\ th' = IF mode = "auto" /\ HasPlayer(game, HERO_SEAT) /\ game.hand_running
                /\ HERO_SEAT \in game.to_act
             THEN Asking ELSE Waiting
    /\ last' = Event("hero_set_mode", NoSeat, mode, 0, <<>>)
    /\ UNCHANGED sid_to_seat

NextTurn ==
    \/ AskStep
    \/ ApplyStep
    \/ ShowdownStep
    \/ \E hc \in HeroCardInputs, key \in ShuffleKeys : StartHand(hc, key)
    \/ \E seat \in SeatInputs, action \in Actions : \E amount \in AmountsFor(action) :
          PlayerAct(seat, action, amount)
    \/ \E action \in Actions : \E amount \in AmountsFor(action) : HeroAct(action, amount)
    \/ \E mode \in {"auto", "manual"} : SetMode(mode)
    \/ \E j \in Joins : th = Waiting /\ on_join(j[1], j[2]) /\ Changed
    \/ \E sid \in Sids : th = Waiting /\ on_player_leave(sid) /\ Changed
    \/ \E seat \in SeatInputs : th = Waiting /\ on_hero_kick(seat) /\ Changed
    \/ \E cards \in SetBoardInputs : th = Waiting /\ on_hero_set_board(cards) /\ Changed

SpecTurn == Init /\ [][NextTurn]_vars /\ WF_vars(AskStep) /\ WF_vars(ApplyStep)

(* a call of ask_for_action is pending: the turn-advancement loop is under *)
(* way.  A handler whose apply_action returns at its guard never enters it. *)
InLoop == th # Waiting /\ th[1].pc = "ask_for_action"

(* the engine waits for the seat it asked *)
SeatAsked ==
    /\ th = Waiting
    /\ game.hand_running
    /\ game.current_player_seat \in game.to_act
    /\ HasPlayer(game, game.current_player_seat)

(* the hand is over, or at the showdown that ends it *)
HandEnds == (th = Waiting /\ ~game.hand_running) \/ th = ShowingDown

(* C27: turn advancement always terminates: one run of the loop, with the   *)
(* hero's inline actions and the street transitions it triggers, reaches    *)
(* after finitely many calls a state where the engine waits for a seat it   *)
(* asked, or the end of the hand; it never goes on forever.                 *)
C27_TurnAdvancementTerminates == InLoop ~> (SeatAsked \/ HandEnds)

(* the loop under way on the flop, after an inline action of the hero and a *)
(* street transition, with the turn passing over a seat that owes nothing   *)
C27_Witness ==
    /\ th = Asking
    /\ game.hand_running
    /\ game.street = "flop"
    /\ game.to_act # {}
    /\ game.current_player_seat \notin game.to_act
    /\ Cardinality(ActiveOf(game)) >= 2

RECURSIVE SumChips(_, _)
SumChips(players, i) ==
    IF i > Len(players) THEN 0 ELSE players[i].chips + SumChips(players, i + 1)

(* pot plus stacks is 1000 times the number of seats *)
Conserved(t) == t.pot + SumChips(t.players, 1) = StartChips * Len(t.players)

StacksOf(players) == ToSeq([i \in 1..Len(players) |-> players[i].chips])

EngineEvents == {"hero_start_hand", "player_action", "hero_action", "hero_set_mode",
                 "hero_set_board"}

(* C28: chips are conserved within a hand: as long as no seat joins or is   *)
(* removed after the deal, pot plus the sum of all stacks is 1000 times the *)
(* number of seats in every state of the hand, for any actions and amounts; *)
(* the end of the hand, by fold-out or showdown, changes neither the pot    *)
(* nor any stack.                                                           *)
C28_ChipsConserved ==
    [][(steps' = steps + 1 /\ last'.ev \in EngineEvents) =>
          /\ last'.ev = "hero_start_hand" => Conserved(DealtSnap(last', game'))
          /\ (Conserved(game) \/ last'.ev = "hero_start_hand") =>
                /\ Conserved(game')
                /\ \A i \in 1..Len(last'.trace) : Conserved(last'.trace[i].mid)
          /\ (last'.trace # <<>> /\ ~game'.hand_running) =>
                /\ game'.pot = last'.trace[Len(last'.trace)].mid.pot
                /\ StacksOf(game'.players)
                     = StacksOf(last'.trace[Len(last'.trace)].mid.players)]_vars

(* a hand that ended with chips in the pot and a stack below 1000 *)
C28_Witness ==
    /\ last.ev \in {"player_action", "hero_action"}
    /\ last.trace # <<>>
    /\ ~game.hand_running
    /\ game.pot > 0
    /\ \E i \in 1..Len(game.players) : game.players[i].chips < StartChips
    /\ Conserved(game)

(* C29: for every seat in every reachable state pfr_hands <= vpip_hands <=  *)
(* hands_played: the VPIP and PFR counters of a seat grow by at most one    *)
(* per hand dealt to it, however often it calls or raises preflop.          *)
C29_StatsOrdered ==
    \A s \in AllSeats :
        /\ game.stats[s].pfr_hands <= game.stats[s].vpip_hands
        /\ game.stats[s].vpip_hands <= game.stats[s].hands_played

(* the seats of table t that hold two hole cards: the seats dealt in *)
DealtIn(t) ==
    {t.players[i].seat : i \in {j \in 1..Len(t.players) : Len(t.players[j].hole_cards) = 2}}

(* the seats sitting at table t without hole cards: during a hand, the *)
(* seats that joined after the deal                                    *)
Undealt(t) ==
    {t.players[i].seat : i \in {j \in 1..Len(t.players) : Len(t.players[j].hole_cards) # 2}}

(* C30: only seats that were dealt hole cards take part in a hand: a seat   *)
(* that joined while the hand was running is never in to_act or asked to    *)
(* act, is not counted as an active seat when the fold-out is detected (a   *)
(* fold that leaves at most one dealt-in active seat ends the hand), and is *)
(* never marked winner in the HandRecord of that hand: every winner holds   *)
(* exactly 2 hole cards.                                                    *)
C30_OnlyDealtSeatsPlay ==
    /\ game.hand_running =>
          /\ game.to_act \cap Undealt(game) = {}
          /\ game.current_player_seat \notin Undealt(game)
    /\ \A k \in 1..Len(last.trace) :
          (/\ last.trace[k].action = "FOLD"
           /\ Cardinality(ActiveOf(last.trace[k].mid)
                          \cap DealtIn(last.trace[k].mid)) <= 1) =>
              k = Len(last.trace) /\ ~game.hand_running
    /\ \A r \in History : \A i \in 1..Len(r.players) :
          r.players[i].winner => Len(r.players[i].hole_cards) = 2

(***************************************************************************)
(* Streets after a change of seating.  The same handlers from the empty    *)
(* table, with a longer run of events: the clients join, leave and join    *)
(* again before the hand, the hero plays by itself (auto mode), and the    *)
(* seated clients check, call or raise.                                    *)
(***************************************************************************)
SeatingSteps == 3   \* events handled on top of MaxSteps along one behaviour

InitStreet ==
    /\ game = GameState
    /\ sid_to_seat = [s \in Sids |-> NoSeat]
    /\ last = Plain("init")
    /\ steps = 0 - SeatingSteps
    /\ th = NoThreads

NextStreet ==
    \/ \E j \in Joins : on_join(j[1], j[2]) /\ Changed
    \/ \E sid \in Sids : on_player_leave(sid) /\ Changed
    \/ \E key \in ShuffleKeys : on_hero_start(<<>>, <<>>, key)
    \/ \E seat \in FirstSeat..NumSids,
          a \in {<<"CHECK", 0>>, <<"CALL", 0>>, <<"RAISE", 2000>>} :
          on_player_action(seat, a[1], a[2]) /\ Changed

SpecStreet == InitStreet /\ [][NextStreet]_vars

(* the seat asked first in the hand that hero_start_hand dealt *)
FirstAsked ==
    IF last.trace = <<>> THEN game.current_player_seat ELSE last.trace[1].seat

(* C31: at the start of every street (preflop, flop, turn, river) the first *)
(* seat asked to act is the active seat with the lowest seat index, in      *)
(* whatever order the seats joined, left and joined the table again.        *)
C31_LowestSeatOpensStreet ==
    /\ last.ev = "hero_start_hand" =>
          FirstAsked = Min(ActiveOf(DealtSnap(last, game)))
    /\ \A k \in 1..Len(last.trace) :
          (/\ last.trace[k].action = "next_street"
           /\ last.trace[k].mid.hand_running
           /\ ActiveOf(last.trace[k].mid) # {}) =>
              AskedAfter(k) = Min(ActiveOf(last.trace[k].mid))

====
